---- MODULE Spec2Model ----
(***************************************************************************)
(* Model of the peer session manager of NextMeet (src/rtc.js, class        *)
(* RTCManager) together with the signaling handlers that drive it          *)
(* (src/recording.js, DOMContentLoaded handler).                           *)
(*                                                                         *)
(* One local participant is modelled.  Remote participants are the peer    *)
(* ids in Peers; the signaling messages they send, the events of the       *)
(* browser's RTCPeerConnection / RTCDataChannel objects and the calls of   *)
(* the embedding page are the inputs of the model.  SpecPair models two    *)
(* participants that run the same handlers and exchange their signaling    *)
(* messages over the bus.                                                  *)
(*                                                                         *)
(* An async function is a task: it runs synchronously up to its first      *)
(* await of a browser promise, and each later action of the task is the    *)
(* settlement of the awaited promise followed by the synchronous code up   *)
(* to the next await (or to the end of the calling handler).               *)
(***************************************************************************)
EXTENDS Integers, Sequences, FiniteSets, TLC

\* ---- bounds ------------------------------------------------------------
NumPeers == 2        \* remote peer ids 1..NumPeers
MaxConns == 2        \* RTCPeerConnection objects ever constructed
MaxChans == 2        \* RTCDataChannel objects ever constructed
MaxTasks == 2        \* async handlers suspended at the same time
MaxIce == 2          \* remote candidates handed to connections
MaxSignals == 3      \* signaling messages received
MaxCallbacks == 2    \* callbacks registered over all event names
MaxFiles == 1        \* files being read by sendFile at one time
MaxChunks == 2       \* chunks of 16 KB in one file
MaxStarts == 2       \* calls of RecordingManager.start in progress at one time
MaxRecorders == 3    \* MediaRecorder objects constructed
MaxRestarts == 3     \* restarts of the speech recognizer by its end event
MaxDisc == 2         \* peerDisconnected emissions counted per connection

Peers == 1..NumPeers
ConnIds == 1..MaxConns
ChanIds == 1..MaxChans
TaskIds == 1..MaxTasks

\* The events whose callbacks are modelled: those of the connection's
\* lifecycle and those of inbound channel payloads.
LifecycleEvents == {"connectionStateChange", "peerDisconnected"}
PayloadEvents == {"dataChannelMessage", "dataChannelBinary"}
EventNames == LifecycleEvents \cup PayloadEvents

VARIABLES
    peerConnections,   \* this.peerConnections : peer id -> connection id, 0 = no entry
    dataChannels,      \* this.dataChannels    : peer id -> channel id, 0 = no entry
    dcKeys,            \* the keys of this.dataChannels in insertion (iteration) order
    callbacks,         \* this.callbacks       : event name -> sequence of callbacks
    localStream,       \* this.localStream     : the stream set, if any, and its tracks
    reading,           \* the files of sendFile whose FileReader has not loaded yet
    transcription,     \* the TranscriptionManager and its speech recognizer
    recorder,          \* the RecordingManager, its recorders, timers and start calls
    conns,             \* the RTCPeerConnection objects constructed so far
    chans,             \* the RTCDataChannel objects constructed so far
    chain,             \* per connection: the browser's queue of pending operations
    tasks,             \* the suspended async handlers
    signals,           \* number of signaling messages received so far
    bus,               \* per sender: the signaling messages posted and not yet
                       \* delivered, when the remote participant is modelled too
    last               \* what the last action did: return value or outcome,
                       \* channel sends, emitted events, signaling sends

vars == <<peerConnections, dataChannels, dcKeys, callbacks, localStream, reading,
          transcription, recorder, conns, chans, chain, tasks, signals, bus, last>>

\* ---- objects -----------------------------------------------------------
NoConn ==
    [peer |-> 0, closed |-> FALSE, sig |-> "stable", local |-> "none",
     remote |-> "none", state |-> "new", applied |-> <<>>, early |-> <<>>,
     ice |-> 0, disc |-> 0, gathered |-> 0, tracks |-> {}]

\* TranscriptionManager after its constructor (src/rtc.js 377-413), in a
\* browser with speech recognition.  engine is the recognizer: idle,
\* listening, or ending (stop was called, its end event is to come).
\* armed: a start() has returned true and no stop() was called since.
NoTranscription ==
    [recognition |-> TRUE, isRecording |-> FALSE, engine |-> "idle",
     restarts |-> 0, armed |-> FALSE]

\* RecordingManager after its constructor (src/recording.js 7-14).
\* mediaRecorder and timerInterval are the fields (0 for null); recording
\* and timers are the MediaRecorder objects that record and the intervals
\* that run; starts is the position of each call of start in progress.
StartIds == 1..MaxStarts

NoRecorder ==
    [isRecording |-> FALSE, mediaRecorder |-> 0, timerInterval |-> 0,
     recording |-> {}, timers |-> {}, made |-> 0,
     starts |-> [i \in StartIds |-> "idle"]]

\* this.localStream = null (src/rtc.js 11).
NoStream == [set |-> FALSE, tracks |-> {}]

\* twin is the channel at the other end when that end belongs to the other
\* modelled participant, 0 otherwise.
NoChan == [conn |-> 0, readyState |-> "none", twin |-> 0]

IdleTask ==
    [pos |-> "idle", kind |-> "none", peer |-> 0, conn |-> 0, cand |-> 0,
     conflict |-> FALSE, removed |-> FALSE]

NoLast ==
    [op |-> "none", peer |-> 0, ret |-> "none", handed |-> <<>>, emits |-> <<>>,
     signal |-> <<>>, conflict |-> FALSE, removed |-> FALSE, routed |-> {}]

Allocated(c) == conns[c].peer # 0
ChanAllocated(h) == chans[h].conn # 0
FreeConns == {c \in ConnIds : ~Allocated(c)}
FreeChans == {h \in ChanIds : ~ChanAllocated(h)}
FreeTasks == {t \in TaskIds : tasks[t].pos = "idle"}
Min(S) == CHOOSE x \in S : \A y \in S : x <= y

\* The registry and the objects it refers to, threaded through the
\* synchronous code of one action.
Cur ==
    [pcs |-> peerConnections, dcs |-> dataChannels, keys |-> dcKeys,
     conns |-> conns, chans |-> chans, tasks |-> tasks, emits |-> <<>>, threw |-> FALSE]

\* ---- RTCManager.emit (src/rtc.js 309-312) ------------------------------
\* A callback is named by its registration number.  k is the position in
\* the event's list of the first callback that throws on this emission
\* (0: none throws): forEach stops there, the exception leaves emit and
\* the callbacks after it are not invoked.
Invoked(cbs, k) == IF k = 0 THEN cbs ELSE SubSeq(cbs, 1, k)

emit(S, event, p, k) ==
    [S EXCEPT !.emits = Append(@, [event |-> event, peer |-> p, state |-> "none",
                                   invoked |-> Invoked(callbacks[event], k)]),
              !.threw = (k # 0)]

Throwers(event) == 0..Len(callbacks[event])

\* ---- the browser's pc.close() / channel.close() ------------------------
\* Closing a connection closes the data channels that belong to it.
CloseConn(S, c) ==
    [S EXCEPT !.conns[c].closed = TRUE,
              !.conns[c].sig = "closed",
              !.conns[c].state = "closed",
              !.chans = [h \in ChanIds |->
                            IF S.chans[h].conn = c
                            THEN [S.chans[h] EXCEPT !.readyState = "closed"]
                            ELSE S.chans[h]]]

CloseChan(S, h) == [S EXCEPT !.chans[h].readyState = "closed"]

\* ---- RTCManager.removePeer (src/rtc.js 240-252) ------------------------
RemovedMark(S, p) ==
    [S EXCEPT !.tasks = [t \in TaskIds |->
                            IF S.tasks[t].peer = p /\ S.pcs[p] # 0
                            THEN [S.tasks[t] EXCEPT !.removed = TRUE]
                            ELSE S.tasks[t]]]

removePeerConn(S, p) ==
    IF S.pcs[p] # 0
    THEN [CloseConn(S, S.pcs[p]) EXCEPT !.pcs[p] = 0]
    ELSE S

\* Variant of the channel half of removePeer that clears the whole channel
\* map (this.dataChannels.clear()) instead of deleting one key.
removePeerChan_clearsMap(S, p) ==
    IF S.dcs[p] # 0
    THEN [CloseChan(S, S.dcs[p]) EXCEPT !.dcs = [q \in Peers |-> 0],
                                        !.keys = <<>>]
    ELSE S

\* Variant of the channel half of removePeer that does not look whether
\* the peer id has a channel and clears the map.
removePeerChan_unguarded(S, p) ==
    [S EXCEPT !.dcs = [q \in Peers |-> 0], !.keys = <<>>]

removePeerChan(S, p) ==
    IF S.dcs[p] # 0
    THEN [CloseChan(S, S.dcs[p]) EXCEPT !.dcs[p] = 0,
                                        !.keys = SelectSeq(S.keys, LAMBDA q : q # p)]
    ELSE S

removePeer(S, p) == removePeerChan(removePeerConn(RemovedMark(S, p), p), p)

\* ---- RTCManager.handleDisconnection (src/rtc.js 232-235) ---------------
\* c is the connection whose event led here (counted in disc), k as in emit.
handleDisconnection(S, c, p, k) ==
    LET S1 == emit([S EXCEPT !.conns[c].disc = @ + 1], "peerDisconnected", p, k)
    IN  IF S1.threw THEN S1 ELSE removePeer(S1, p)

\* ---- pc.onconnectionstatechange (src/rtc.js 55-64) ---------------------
\* c is the connection that raised the event, p the peerId of its closure.
onconnectionstatechange_always(S, c, p, k1, k2) ==
    LET S1 == emit(S, "connectionStateChange", p, k1)
    IN  IF S1.threw THEN S1 ELSE handleDisconnection(S1, c, p, k2)

onconnectionstatechange(S, c, p, k1, k2) ==
    LET E  == emit(S, "connectionStateChange", p, k1)
        S1 == [E EXCEPT !.emits[Len(E.emits)].state = S.conns[c].state]
    IN  IF S1.threw THEN S1
        ELSE IF S1.conns[c].state \in {"failed", "disconnected"}
             THEN handleDisconnection(S1, c, p, k2)
             ELSE S1

\* ---- RTCManager.createPeerConnection (src/rtc.js 34-90) ----------------
\* Constructs a connection and stores it under peerId; an entry already
\* stored under peerId is overwritten.
createPeerConnection_noTracks(S, p, c) ==
    [S EXCEPT !.conns[c] = [NoConn EXCEPT !.peer = p],
              !.pcs[p] = c]

createPeerConnection(S, p, c) ==
    [S EXCEPT !.conns[c] = [NoConn EXCEPT
                               !.peer = p,
                               !.tracks = IF localStream.set
                                          THEN localStream.tracks ELSE {}],
              !.pcs[p] = c]

\* ---- RTCManager.setupDataChannel (src/rtc.js 95-115) -------------------
\* Map.set keeps the position of a key that is already present.
setupDataChannel(S, p, h) ==
    [S EXCEPT !.dcs[p] = h,
              !.keys = IF S.dcs[p] # 0 THEN @ ELSE Append(@, p)]

\* ---- RTCManager.createDataChannel (src/rtc.js 120-130) -----------------
\* Variant without the test of line 122: a channel is set up also for a
\* peer id that has no connection.
createDataChannel_unchecked(S, p, h) ==
    setupDataChannel(
        [S EXCEPT !.chans[h] = [NoChan EXCEPT !.conn = S.pcs[p], !.readyState = "connecting"]],
        p, h)

createDataChannel(S, p, h) ==
    IF S.pcs[p] = 0 THEN S
    ELSE setupDataChannel(
             [S EXCEPT !.chans[h] = [NoChan EXCEPT !.conn = S.pcs[p], !.readyState = "connecting"]],
             p, h)

\* Write the threaded registry back to the variables.
Commit(S) ==
    /\ peerConnections' = S.pcs
    /\ dataChannels' = S.dcs
    /\ dcKeys' = S.keys
    /\ conns' = S.conns
    /\ chans' = S.chans

\* ---- tasks -------------------------------------------------------------
Task(kind, pos, p, c) ==
    [IdleTask EXCEPT !.kind = kind, !.pos = pos, !.peer = p, !.conn = c]

Op(name, p) == [NoLast EXCEPT !.op = name, !.peer = p]

Msg_undirected(type, p, c) == [type |-> type, to |-> 0, conn |-> c]

Msg(type, p, c) == [type |-> type, to |-> p, conn |-> c]

\* How the handler of task record tk ended: "ok" (returned), "failed" (a
\* rejection left the handler), "hung" (never resumed); what it sent.
Ended(tk, result, sent) ==
    [Op(tk.kind, tk.peer) EXCEPT !.ret = result, !.signal = sent,
                                 !.conflict = tk.conflict, !.removed = tk.removed]

\* The awaited promise of task t is the oldest pending operation of its
\* connection: the browser settles the operations of one connection in the
\* order they were called.
AtHead(t) ==
    /\ tasks[t].pos # "idle"
    /\ chain[tasks[t].conn] # <<>>
    /\ Head(chain[tasks[t].conn]) = t

\* Task t calls the next operation of its connection and awaits it.
Await(t, pos) ==
    /\ tasks' = [tasks EXCEPT ![t].pos = pos]
    /\ chain' = [chain EXCEPT ![tasks[t].conn] = Append(Tail(@), t)]
    /\ last' = NoLast
    /\ UNCHANGED <<peerConnections, dataChannels, dcKeys, callbacks, transcription, recorder, localStream, reading, chans, signals>>

\* The handler of task t ends (returns, throws, or is never resumed).
Finish(t, result, sent) ==
    /\ tasks' = [tasks EXCEPT ![t] = IdleTask]
    /\ chain' = [chain EXCEPT ![tasks[t].conn] = Tail(@)]
    /\ last' = Ended(tasks[t], result, sent)
    /\ UNCHANGED <<peerConnections, dataChannels, dcKeys, callbacks, transcription, recorder, localStream, reading, chans, signals>>

\* An operation pending on a connection that has been closed: the browser
\* rejects it with InvalidStateError or never settles it.
Aborted(t) ==
    /\ AtHead(t)
    /\ conns[tasks[t].conn].closed
    /\ \E r \in {"failed", "hung"} :
           Finish(t, IF tasks[t].kind = "ice" /\ r = "failed" THEN "ok" ELSE r, <<>>)
    /\ UNCHANGED conns

\* The connection a suspended createOffer / handleOffer / handleAnswer
\* works on: the const pc it read from the registry before its first await.
TaskConn(t) == tasks[t].conn

\* A signaling message of a remote peer is delivered (LocalSignaling
\* channel.onmessage, src/rtc.js 322-330, dispatches it to the handler of
\* its type).  The remote peers are the environment here: what they send
\* is any message, and what is sent to them leaves the model.
Receive == signals < MaxSignals /\ signals' = signals + 1 /\ UNCHANGED bus

\* ---- signaling.on('join') (src/recording.js 296-303) -------------------
\* createPeerConnection, createDataChannel, then createOffer up to its
\* first await (src/rtc.js 135-141).
OnJoin(p) ==
    /\ FreeTasks # {} /\ FreeConns # {} /\ FreeChans # {}
    /\ LET t == Min(FreeTasks)
           c == Min(FreeConns)
           S == createDataChannel(createPeerConnection(Cur, p, c), p, Min(FreeChans))
       IN  /\ Commit(S)
           /\ tasks' = [tasks EXCEPT ![t] = Task("join", "createOffer", p, c)]
           /\ chain' = [chain EXCEPT ![c] = Append(@, t)]
           /\ last' = NoLast
    /\ UNCHANGED <<callbacks, transcription, recorder, localStream, reading>>

\* pc.createOffer() settled; createOffer calls pc.setLocalDescription(offer)
\* (src/rtc.js 141-146).  The browser creates an offer only in the states
\* stable and have-local-offer and rejects otherwise.
CreateOfferSettled(t) ==
    /\ AtHead(t) /\ tasks[t].pos = "createOffer"
    /\ ~conns[TaskConn(t)].closed
    /\ IF conns[TaskConn(t)].sig \in {"stable", "have-local-offer"}
       THEN Await(t, "setLocalOffer")
       ELSE Finish(t, "failed", <<>>)
    /\ UNCHANGED conns

\* pc.setLocalDescription(offer) settled; createOffer returns the offer and
\* the join handler sends it (src/rtc.js 146-148, src/recording.js 301-302).
SetLocalOfferSettled(t) ==
    /\ AtHead(t) /\ tasks[t].pos = "setLocalOffer"
    /\ LET c == TaskConn(t) IN
       /\ ~conns[c].closed
       /\ IF conns[c].sig \in {"stable", "have-local-offer"}
          THEN /\ conns' = [conns EXCEPT ![c].local = "offer",
                                         ![c].sig = "have-local-offer"]
               /\ Finish(t, "ok", IF tasks[t].kind = "join"
                                  THEN <<Msg("offer", tasks[t].peer, c)>> ELSE <<>>)
          ELSE /\ UNCHANGED conns
               /\ Finish(t, "failed", <<>>)

\* ---- signaling.on('offer') (src/recording.js 305-309) ------------------
\* handleOffer up to its first await (src/rtc.js 154-160).
OnOffer_alwaysCreates(p) ==
    /\ FreeTasks # {} /\ FreeConns # {}
    /\ LET t == Min(FreeTasks)
           c == Min(FreeConns)
       IN  /\ Commit(createPeerConnection(Cur, p, c))
           /\ tasks' = [tasks EXCEPT ![t] = Task("offer", "setRemoteOffer", p, c)]
           /\ chain' = [chain EXCEPT ![c] = Append(@, t)]
           /\ last' = NoLast
    /\ UNCHANGED <<callbacks, transcription, recorder, localStream, reading>>

OnOffer(p) ==
    /\ FreeTasks # {}
    /\ peerConnections[p] # 0 \/ FreeConns # {}
    /\ LET t == Min(FreeTasks)
           c == IF peerConnections[p] # 0 THEN peerConnections[p] ELSE Min(FreeConns)
           S == IF peerConnections[p] # 0 THEN Cur ELSE createPeerConnection(Cur, p, c)
       IN  /\ Commit(S)
           /\ tasks' = [tasks EXCEPT ![t] =
                  [Task("offer", "setRemoteOffer", p, c) EXCEPT !.conflict =
                      (conns[c].sig = "have-local-offer" /\ chain[c] = <<>>)]]
           /\ chain' = [chain EXCEPT ![c] = Append(@, t)]
           /\ last' = NoLast
    /\ UNCHANGED <<callbacks, transcription, recorder, localStream, reading>>

\* pc.setRemoteDescription(offer) settled; handleOffer calls
\* pc.createAnswer() (src/rtc.js 160-162).  An offer applied while a local
\* offer is pending is rejected by a browser without implicit rollback and
\* rolls the local offer back in a browser with it.
SetRemoteOfferSettled(t) ==
    /\ AtHead(t) /\ tasks[t].pos = "setRemoteOffer"
    /\ LET c == TaskConn(t) IN
       /\ ~conns[c].closed
       /\ \/ /\ conns' = [conns EXCEPT ![c].remote = "offer",
                                       ![c].sig = "have-remote-offer",
                                       ![c].local = IF conns[c].sig = "have-local-offer"
                                                    THEN "none" ELSE @]
             /\ Await(t, "createAnswer")
          \/ /\ conns[c].sig = "have-local-offer"
             /\ UNCHANGED conns
             /\ Finish(t, "failed", <<>>)

\* pc.createAnswer() settled; handleOffer calls
\* pc.setLocalDescription(answer) (src/rtc.js 162-163).
CreateAnswerSettled(t) ==
    /\ AtHead(t) /\ tasks[t].pos = "createAnswer"
    /\ ~conns[TaskConn(t)].closed
    /\ IF conns[TaskConn(t)].sig = "have-remote-offer"
       THEN Await(t, "setLocalAnswer")
       ELSE Finish(t, "failed", <<>>)
    /\ UNCHANGED conns

\* pc.setLocalDescription(answer) settled; handleOffer returns the answer
\* and the offer handler sends it (src/rtc.js 163-165, src/recording.js 308).
SetLocalAnswerSettled_sendsUnset(t) ==
    /\ AtHead(t) /\ tasks[t].pos = "setLocalAnswer"
    /\ ~conns[TaskConn(t)].closed
    /\ UNCHANGED conns
    /\ Finish(t, "ok", <<Msg("answer", tasks[t].peer, TaskConn(t))>>)

SetLocalAnswerSettled(t) ==
    /\ AtHead(t) /\ tasks[t].pos = "setLocalAnswer"
    /\ LET c == TaskConn(t) IN
       /\ ~conns[c].closed
       /\ IF conns[c].sig = "have-remote-offer"
          THEN /\ conns' = [conns EXCEPT ![c].local = "answer", ![c].sig = "stable"]
               /\ Finish(t, "ok", <<Msg("answer", tasks[t].peer, c)>>)
          ELSE /\ UNCHANGED conns
               /\ Finish(t, "failed", <<>>)

\* ---- signaling.on('answer') (src/recording.js 311-314) -----------------
\* handleAnswer up to its await (src/rtc.js 171-175).
OnAnswer(p) ==
    /\ IF peerConnections[p] = 0
       THEN /\ last' = [Op("answer", p) EXCEPT !.ret = "dropped"]
            /\ UNCHANGED <<tasks, chain>>
       ELSE /\ FreeTasks # {}
            /\ LET t == Min(FreeTasks)
                   c == peerConnections[p]
               IN  /\ tasks' = [tasks EXCEPT ![t] =
                          [Task("answer", "setRemoteAnswer", p, c) EXCEPT !.conflict =
                              (conns[c].sig # "have-local-offer" /\ chain[c] = <<>>)]]
                   /\ chain' = [chain EXCEPT ![c] = Append(@, t)]
            /\ last' = NoLast
    /\ UNCHANGED <<peerConnections, dataChannels, dcKeys, callbacks, transcription, recorder, localStream, reading, conns, chans>>

\* pc.setRemoteDescription(answer) settled (src/rtc.js 175): an answer is
\* accepted only while a local offer is pending, otherwise the promise is
\* rejected and the rejection leaves handleAnswer and the handler.
SetRemoteAnswerSettled(t) ==
    /\ AtHead(t) /\ tasks[t].pos = "setRemoteAnswer"
    /\ LET c == TaskConn(t) IN
       /\ ~conns[c].closed
       /\ IF conns[c].sig = "have-local-offer"
          THEN /\ conns' = [conns EXCEPT ![c].remote = "answer", ![c].sig = "stable"]
               /\ Finish(t, "ok", <<>>)
          ELSE /\ UNCHANGED conns
               /\ Finish(t, "failed", <<>>)

\* ---- signaling.on('ice-candidate') (src/recording.js 316-318) ----------
\* addIceCandidate up to its await (src/rtc.js 181-186).  The k-th
\* candidate handed to a connection is named k.
RECURSIVE SumIce(_)
SumIce(cs) == IF cs = {} THEN 0 ELSE conns[Min(cs)].ice + SumIce(cs \ {Min(cs)})
IceHanded == SumIce(ConnIds)

OnIce(p) ==
    /\ IF peerConnections[p] = 0
       THEN /\ last' = [Op("ice", p) EXCEPT !.ret = "dropped"]
            /\ UNCHANGED <<tasks, chain, conns>>
       ELSE /\ FreeTasks # {}
            /\ IceHanded < MaxIce
            /\ LET t == Min(FreeTasks)
                   c == peerConnections[p]
                   k == conns[c].ice + 1
               IN  /\ tasks' = [tasks EXCEPT ![t] =
                          [Task("ice", "addIce", p, c) EXCEPT !.cand = k]]
                   /\ chain' = [chain EXCEPT ![c] = Append(@, t)]
                   /\ conns' = [conns EXCEPT
                          ![c].ice = k,
                          ![c].early = IF conns[c].remote = "none"
                                       THEN Append(@, k) ELSE @]
            /\ last' = NoLast
    /\ UNCHANGED <<peerConnections, dataChannels, dcKeys, callbacks, transcription, recorder, localStream, reading, chans>>

\* pc.addIceCandidate(candidate) settled (src/rtc.js 185-189): the browser
\* rejects a candidate for a connection without remote description; the
\* rejection is caught and logged, the candidate is gone.
\* Variant of the browser in which a remote candidate is never usable.
IceApplied_neverUsable(c, k) == conns[c].applied

IceApplied_untilConnected(c, k) ==
    IF conns[c].remote = "none" \/ conns[c].state = "connected" THEN conns[c].applied
    ELSE Append(conns[c].applied, k)

IceApplied(c, k) ==
    IF conns[c].remote = "none" THEN conns[c].applied
    ELSE Append(conns[c].applied, k)

AddIceSettled(t) ==
    /\ AtHead(t) /\ tasks[t].pos = "addIce"
    /\ ~conns[TaskConn(t)].closed
    /\ conns' = [conns EXCEPT ![TaskConn(t)].applied =
                                 IceApplied(TaskConn(t), tasks[t].cand)]
    /\ Finish(t, "ok", <<>>)

\* ---- the connection reports a new connectionState ----------------------
StateAfter ==
    [new |-> {"connecting"}, connecting |-> {"connected", "failed"},
     connected |-> {"disconnected"}, disconnected |-> {"connected", "failed"},
     failed |-> {}, closed |-> {}]

ConnectionStateChange(c, s) ==
    /\ Allocated(c) /\ ~conns[c].closed
    /\ conns[c].local # "none" /\ conns[c].remote # "none"
    /\ s \in StateAfter[conns[c].state]
    /\ s \in {"failed", "disconnected"} => conns[c].disc < MaxDisc
    /\ \E k1 \in Throwers("connectionStateChange"), k2 \in Throwers("peerDisconnected") :
         LET S == onconnectionstatechange([Cur EXCEPT !.conns[c].state = s],
                                          c, conns[c].peer, k1, k2)
         IN  /\ Commit(S)
             /\ tasks' = S.tasks
             /\ last' = [Op(s, conns[c].peer) EXCEPT
                            !.emits = S.emits,
                            !.ret = IF S.threw THEN "throw" ELSE "none"]
    /\ UNCHANGED <<callbacks, transcription, recorder, localStream, reading, chain, signals, bus>>

\* ---- calls of the embedding page ---------------------------------------
\* removePeer called by the page; the outcome recorded is whether the peer
\* id had anything registered.
RemovePeer(p) ==
    /\ LET S == removePeer(Cur, p)
       IN  /\ Commit(S) /\ tasks' = S.tasks
           /\ last' = [Op("removePeer", p) EXCEPT
                          !.ret = IF S = Cur THEN "no-op" ELSE "ok"]
    /\ UNCHANGED <<callbacks, transcription, recorder, localStream, reading, chain, signals, bus>>

\* removePeer with a connection or channel object whose close() raises
\* (src/rtc.js 243, 249 are not inside a try block).  n = 1: pc.close()
\* raises and the exception leaves removePeer at line 243; n = 2:
\* channel.close() raises and the exception leaves it at line 249, after
\* the connection was closed and its entry deleted.
removePeerRaising(S, p, n) ==
    IF n = 1 THEN [S EXCEPT !.threw = TRUE]
    ELSE [removePeerConn(RemovedMark(S, p), p) EXCEPT !.threw = TRUE]

RemovePeerRaising(p) ==
    /\ \E n \in 1..2 :
         /\ n = 1 => peerConnections[p] # 0
         /\ n = 2 => dataChannels[p] # 0
         /\ LET S == removePeerRaising(Cur, p, n)
            IN  Commit(S) /\ tasks' = S.tasks
    /\ last' = [Op("removePeer", p) EXCEPT !.ret = "throw"]
    /\ UNCHANGED <<callbacks, transcription, recorder, localStream, reading, chain, signals, bus>>

\* createDataChannel called by the page (src/rtc.js 120-130): null for a
\* peer id without connection.
CreateDataChannel(p) ==
    /\ FreeChans # {}
    /\ LET S == createDataChannel(Cur, p, Min(FreeChans))
       IN  /\ Commit(S)
           /\ last' = [Op("createDataChannel", p) EXCEPT
                          !.ret = IF peerConnections[p] = 0 THEN "null" ELSE "channel"]
    /\ UNCHANGED <<callbacks, transcription, recorder, localStream, reading, chain, tasks, signals, bus>>

\* RTCManager.closeAll (src/rtc.js 257-263), called by leaveMeeting
\* (src/ui.js 329-341).
RECURSIVE CloseEach(_, _)
CloseEach(S, ps) ==
    IF ps = {} THEN S
    ELSE LET p == Min(ps)
         IN  CloseEach(IF S.pcs[p] = 0 THEN S
                       ELSE CloseConn(RemovedMark(S, p), S.pcs[p]),
                       ps \ {p})

closeAll(S) ==
    [CloseEach(S, Peers) EXCEPT !.pcs = [p \in Peers |-> 0],
                                !.dcs = [p \in Peers |-> 0],
                                !.keys = <<>>]

CloseAll ==
    /\ LET S == closeAll(Cur)
       IN  Commit(S) /\ tasks' = S.tasks
    /\ last' = NoLast
    /\ UNCHANGED <<callbacks, transcription, recorder, localStream, reading, chain, signals, bus>>

\* RTCManager.on (src/rtc.js 299-304).  The page registers its callbacks
\* while it initialises (src/recording.js 321-353, ChatManager.init), before
\* the first signaling message is dispatched.
Registered ==
    Len(callbacks["connectionStateChange"]) + Len(callbacks["peerDisconnected"])
    + Len(callbacks["dataChannelMessage"]) + Len(callbacks["dataChannelBinary"])

On(e) ==
    /\ signals = 0
    /\ Registered < MaxCallbacks
    /\ callbacks' = [callbacks EXCEPT ![e] = Append(@, Registered + 1)]
    /\ last' = NoLast
    /\ UNCHANGED <<localStream, reading, transcription, recorder>>
    /\ UNCHANGED <<peerConnections, dataChannels, dcKeys, conns, chans, chain, tasks,
                   signals, bus>>

\* ---- data channels -----------------------------------------------------
\* The test of sendMessage and broadcast (src/rtc.js 211, 223); h = 0 is
\* the undefined that Map.get returns for a missing key.
ChannelReady(h) == h # 0 /\ chans[h].readyState = "open"

\* RTCManager.sendMessage (src/rtc.js 209-216).  sendThrows: channel.send
\* raised (send buffer full, message too large).
sendMessage(p, sendThrows) ==
    IF ChannelReady(dataChannels[p])
    THEN IF sendThrows
         THEN [ret |-> "throw", handed |-> <<>>]
         ELSE [ret |-> "true", handed |-> <<dataChannels[p]>>]
    ELSE [ret |-> "false", handed |-> <<>>]

SendMessage(p) ==
    /\ \E sendThrows \in BOOLEAN :
           LET r == sendMessage(p, sendThrows)
           IN  last' = [Op("sendMessage", p) EXCEPT !.ret = r.ret, !.handed = r.handed]
    /\ UNCHANGED <<peerConnections, dataChannels, dcKeys, callbacks, transcription, recorder, localStream, reading, conns, chans,
                   chain, tasks, signals, bus>>

\* RTCManager.broadcast (src/rtc.js 221-227): the channels in the iteration
\* order of the Map; the n-th send raises (n = 0: none does) and the
\* exception leaves the loop.
BroadcastTargets ==
    LET open == SelectSeq(dcKeys, LAMBDA q : ChannelReady(dataChannels[q]))
    IN  [i \in 1..Len(open) |-> dataChannels[open[i]]]

broadcast(n) ==
    IF n = 0
    THEN [ret |-> "none", handed |-> BroadcastTargets]
    ELSE [ret |-> "throw", handed |-> SubSeq(BroadcastTargets, 1, n - 1)]

Broadcast ==
    /\ \E n \in 0..Len(BroadcastTargets) :
           last' = [Op("broadcast", 0) EXCEPT !.ret = broadcast(n).ret,
                                              !.handed = broadcast(n).handed]
    /\ UNCHANGED <<peerConnections, dataChannels, dcKeys, callbacks, transcription, recorder, localStream, reading, conns, chans,
                   chain, tasks, signals, bus>>

\* The channel reports open once its connection is connected
\* (channel.onopen, src/rtc.js 96-98, only notifies).
ChannelOpen(h) ==
    /\ ChanAllocated(h)
    /\ chans[h].readyState = "connecting"
    /\ conns[chans[h].conn].state = "connected"
    /\ chans' = [chans EXCEPT ![h].readyState = "open"]
    /\ last' = NoLast
    /\ UNCHANGED <<peerConnections, dataChannels, dcKeys, callbacks, transcription, recorder, localStream, reading, conns, chain,
                   tasks, signals, bus>>

\* The remote side closed the channel (channel.onclose, src/rtc.js 100-102,
\* only notifies).
ChannelClosed(h) ==
    /\ ChanAllocated(h)
    /\ chans[h].readyState = "open"
    /\ chans' = [chans EXCEPT ![h].readyState = "closed"]
    /\ last' = NoLast
    /\ UNCHANGED <<peerConnections, dataChannels, dcKeys, callbacks, transcription, recorder, localStream, reading, conns, chain,
                   tasks, signals, bus>>

\* pc.ondatachannel (src/rtc.js 84-86): the remote side created a channel
\* on connection c; it is stored under the peerId of c's closure.
\* pc.ondatachannel (src/rtc.js 84-86): the channel h the remote side
\* opened on connection c, whose other end is far, is set up and registered.
ondatachannel_ignored(S, c, h, far) == S

ondatachannel(S, c, h, far) ==
    setupDataChannel(
        [S EXCEPT !.chans[h] = [conn |-> c, readyState |-> "open", twin |-> far]],
        conns[c].peer, h)

OnDataChannel(c) ==
    /\ Allocated(c) /\ ~conns[c].closed
    /\ conns[c].state = "connected"
    /\ FreeChans # {}
    /\ Commit(ondatachannel(Cur, c, Min(FreeChans), 0))
    /\ last' = NoLast
    /\ UNCHANGED <<callbacks, transcription, recorder, localStream, reading, chain, tasks, signals, bus>>

\* channel.onmessage (src/rtc.js 104-112) of a channel set up for peer p:
\* a payload arrives on the open channel.  parses: JSON.parse accepts it.
\* The emit of dataChannelMessage is inside the try block, so an exception
\* of one of its callbacks is caught like a parse error and the payload is
\* emitted as dataChannelBinary too.
onmessage(S, p, parses, k1, k2) ==
    IF parses
    THEN LET S1 == emit(S, "dataChannelMessage", p, k1)
         IN  IF S1.threw THEN emit(S1, "dataChannelBinary", p, k2) ELSE S1
    ELSE emit(S, "dataChannelBinary", p, k2)

OnMessage(h) ==
    /\ ChanAllocated(h)
    /\ chans[h].readyState = "open"
    /\ \E parses \in BOOLEAN :
       \E k1 \in Throwers("dataChannelMessage"), k2 \in Throwers("dataChannelBinary") :
         LET p == conns[chans[h].conn].peer
             S == onmessage(Cur, p, parses, k1, k2)
         IN  last' = [Op(IF parses THEN "payload-json" ELSE "payload-binary", p)
                         EXCEPT !.emits = S.emits,
                                !.ret = IF S.threw THEN "throw" ELSE "none"]
    /\ UNCHANGED <<peerConnections, dataChannels, dcKeys, callbacks, transcription, recorder, localStream, reading, conns, chans,
                   chain, tasks, signals, bus>>

Init ==
    /\ peerConnections = [p \in Peers |-> 0]
    /\ dataChannels = [p \in Peers |-> 0]
    /\ dcKeys = <<>>
    /\ callbacks = [e \in EventNames |-> <<>>]
    /\ localStream = NoStream
    /\ reading = <<>>
    /\ transcription = NoTranscription
    /\ recorder = NoRecorder
    /\ conns = [c \in ConnIds |-> NoConn]
    /\ chans = [h \in ChanIds |-> NoChan]
    /\ chain = [c \in ConnIds |-> <<>>]
    /\ tasks = [t \in TaskIds |-> IdleTask]
    /\ signals = 0
    /\ bus = [p \in Peers |-> <<>>]
    /\ last = NoLast

\* The handlers of the four signaling message types.
Signaling ==
    \/ \E p \in Peers : Receive /\ OnJoin(p)
    \/ \E p \in Peers : Receive /\ OnOffer(p)
    \/ \E p \in Peers : Receive /\ OnAnswer(p)

\* The browser settles the promise a handler awaits.
Settlement ==
    \/ \E t \in TaskIds : CreateOfferSettled(t) /\ UNCHANGED bus
    \/ \E t \in TaskIds : SetLocalOfferSettled(t) /\ UNCHANGED bus
    \/ \E t \in TaskIds : SetRemoteOfferSettled(t) /\ UNCHANGED bus
    \/ \E t \in TaskIds : CreateAnswerSettled(t) /\ UNCHANGED bus
    \/ \E t \in TaskIds : SetLocalAnswerSettled(t) /\ UNCHANGED bus
    \/ \E t \in TaskIds : SetRemoteAnswerSettled(t) /\ UNCHANGED bus
    \/ \E t \in TaskIds : Aborted(t) /\ UNCHANGED bus

Removal ==
    \/ \E p \in Peers : RemovePeer(p)
    \/ CloseAll

Transport == \E c \in ConnIds : \E s \in DOMAIN StateAfter : ConnectionStateChange(c, s)

\* Negotiation: signaling, candidates, removal.
NextNeg ==
    \/ Signaling
    \/ Settlement
    \/ Removal
    \/ \E p \in Peers : Receive /\ OnIce(p)
    \/ \E t \in TaskIds : AddIceSettled(t) /\ UNCHANGED bus

SpecNeg == Init /\ [][NextNeg]_vars

\* Sessions and their disconnection: signaling, transport states, event
\* callbacks, leaving the meeting.
NextDisc ==
    \/ Signaling
    \/ Settlement
    \/ CloseAll
    \/ Transport
    \/ \E e \in LifecycleEvents : On(e)

SpecDisc == Init /\ [][NextDisc]_vars

\* Data channels: signaling, transport states, channel events, sends.
NextChan ==
    \/ Signaling
    \/ Settlement
    \/ Removal
    \/ Transport
    \/ \E c \in ConnIds : OnDataChannel(c)
    \/ \E h \in ChanIds : ChannelOpen(h)
    \/ \E h \in ChanIds : ChannelClosed(h)
    \/ \E p \in Peers : SendMessage(p)
    \/ Broadcast

SpecChan == Init /\ [][NextChan]_vars

\* Removal: negotiation and removal, also with objects whose close()
\* raises.
NextRem ==
    \/ Signaling
    \/ Settlement
    \/ Removal
    \/ \E p \in Peers : RemovePeerRaising(p)

SpecRem == Init /\ [][NextRem]_vars

\* The operations that take a peer id: negotiation, candidates, removal,
\* channel creation and sends by the page.
NextReg ==
    \/ Signaling
    \/ Settlement
    \/ \E p \in Peers : RemovePeer(p)
    \/ \E p \in Peers : Receive /\ OnIce(p)
    \/ \E t \in TaskIds : AddIceSettled(t) /\ UNCHANGED bus
    \/ \E p \in Peers : CreateDataChannel(p)
    \/ \E p \in Peers : SendMessage(p)

SpecReg == Init /\ [][NextReg]_vars

\* Inbound payloads: signaling, transport states, channel events, the
\* callbacks of the payload events, payloads.
NextMsg ==
    \/ Signaling
    \/ Settlement
    \/ Transport
    \/ \E c \in ConnIds : OnDataChannel(c)
    \/ \E h \in ChanIds : ChannelOpen(h)
    \/ \E e \in PayloadEvents : On(e)
    \/ \E h \in ChanIds : OnMessage(h)

SpecMsg == Init /\ [][NextMsg]_vars

\* RTCManager.setLocalStream (src/rtc.js 27-29) with the stream the page
\* got from getUserMedia (src/recording.js 283-284, src/media.js 23).
LocalStreams == {{"audio"}, {"audio", "video"}}

SetLocalStream(tr) ==
    /\ localStream' = [set |-> TRUE, tracks |-> tr]
    /\ last' = NoLast
    /\ UNCHANGED <<peerConnections, dataChannels, dcKeys, callbacks, transcription, recorder, reading, conns,
                   chans, chain, tasks, signals, bus>>

\* Local media: signaling, settlements and leaving the meeting, with the
\* local stream set at any moment, or never.
NextMedia ==
    \/ Signaling
    \/ Settlement
    \/ CloseAll
    \/ \E tr \in LocalStreams : SetLocalStream(tr)

SpecMedia == Init /\ [][NextMedia]_vars

\* ChatManager.sendFile (src/unnamed/part_001 120-161) of a file of n
\* chunks: the file-info message is broadcast, and the file is handed to a
\* FileReader.  An exception of broadcast leaves sendFile before that.
SendFile(n) ==
    /\ Len(reading) < MaxFiles
    /\ \E k \in 0..Len(BroadcastTargets) :
         LET r == broadcast(k)
         IN  /\ last' = [Op("sendFile", 0) EXCEPT !.ret = r.ret, !.handed = r.handed]
             /\ reading' = IF r.ret = "throw" THEN reading
                           ELSE Append(reading, [chunks |-> n, info |-> r.handed])
    /\ UNCHANGED <<peerConnections, dataChannels, dcKeys, callbacks, transcription, recorder, localStream,
                   conns, chans, chain, tasks, signals, bus>>

\* reader.onload of sendFile (src/unnamed/part_001 135-144): the loop
\* slices the buffer into its chunks and hands none of them to a channel.
ChunksHanded(f) == <<>>

FileLoaded(i) ==
    /\ i \in 1..Len(reading)
    /\ reading' = SubSeq(reading, 1, i - 1) \o SubSeq(reading, i + 1, Len(reading))
    /\ last' = [Op("fileLoaded", 0) EXCEPT !.handed = ChunksHanded(reading[i])]
    /\ UNCHANGED <<peerConnections, dataChannels, dcKeys, callbacks, transcription, recorder, localStream,
                   conns, chans, chain, tasks, signals, bus>>

\* File transfer: sessions with their transport and channels, files sent.
NextFile ==
    \/ Signaling
    \/ Settlement
    \/ Transport
    \/ \E c \in ConnIds : OnDataChannel(c)
    \/ \E h \in ChanIds : ChannelOpen(h)
    \/ \E n \in 0..MaxChunks : SendFile(n)
    \/ \E i \in 1..MaxFiles : FileLoaded(i)

SpecFile == Init /\ [][NextFile]_vars

\* RTCManager.createOffer (src/rtc.js 135-149) called for peer p.  pc is
\* read from the registry before the connection is created: for a peer
\* with no connection one is created and registered, and pc.createOffer
\* is then called on undefined, which raises.  Otherwise the call is
\* suspended on the registered connection's createOffer.
CreateOffer(p) ==
    /\ IF peerConnections[p] = 0
       THEN /\ FreeConns # {}
            /\ Commit(createPeerConnection(Cur, p, Min(FreeConns)))
            /\ last' = [Op("createOffer", p) EXCEPT !.ret = "throw"]
            /\ UNCHANGED <<tasks, chain>>
       ELSE /\ FreeTasks # {}
            /\ LET t == Min(FreeTasks)
                   c == peerConnections[p]
               IN  /\ tasks' = [tasks EXCEPT ![t] = Task("createOffer", "createOffer", p, c)]
                   /\ chain' = [chain EXCEPT ![c] = Append(@, t)]
            /\ last' = Op("createOffer", p)
            /\ UNCHANGED <<peerConnections, dataChannels, dcKeys, conns, chans>>
    /\ UNCHANGED <<callbacks, transcription, recorder, localStream, reading, signals, bus>>

\* Offers made on request: signaling, settlements, leaving, and calls of
\* createOffer.
NextOffer ==
    \/ Signaling
    \/ Settlement
    \/ CloseAll
    \/ \E p \in Peers : CreateOffer(p)

SpecOffer == Init /\ [][NextOffer]_vars

\* The tags of the control messages the page broadcasts: chat and
\* file-info (src/unnamed/part_001 63, 131), handRaise and reaction
\* (src/ui.js 372, 404), whiteboard-draw and whiteboard-clear
\* (src/whiteboard.js 246, 258), transcription (src/rtc.js 501).
ControlTags ==
    {"chat", "file-info", "handRaise", "reaction", "whiteboard-draw",
     "whiteboard-clear", "transcription"}

\* The dataChannelMessage callback of ChatManager.init
\* (src/unnamed/part_001 21-27), registered first (src/recording.js 262):
\* the handler it calls for a tag.  handleFileInfo is not a method of
\* ChatManager, so the call for file-info raises.
ChatRoute(tag) == IF tag = "chat" THEN {"chat.receiveMessage"} ELSE {}

ChatRaises(tag) == tag = "file-info"

\* The dataChannelMessage callback of the page (src/recording.js 338-353),
\* registered second: the collaborator its switch calls for a tag.
PageRoute(tag) ==
    CASE tag = "reaction" -> {"ui.showFloatingReaction"}
      [] tag = "whiteboard-draw" -> {"whiteboard.applyRemoteDraw"}
      [] tag = "whiteboard-clear" -> {"whiteboard.clear"}
      [] tag = "transcription" -> {"transcription.renderEntry"}
      [] OTHER -> {}

\* emit('dataChannelMessage') with the two callbacks (src/rtc.js 309-312):
\* the handlers that ran.
Routed(tag) ==
    IF ChatRaises(tag) THEN ChatRoute(tag) ELSE ChatRoute(tag) \cup PageRoute(tag)

\* channel.onmessage (src/rtc.js 104-112) for a control message with the
\* given tag on the open channel h.  When a callback raises, the catch
\* emits dataChannelBinary, whose callback (src/unnamed/part_001 29-31)
\* calls handleFileData, not a method of ChatManager either.
OnControlMessage(h, tag) ==
    /\ ChanAllocated(h)
    /\ chans[h].readyState = "open"
    /\ last' = [Op("control", conns[chans[h].conn].peer) EXCEPT
                   !.routed = Routed(tag),
                   !.ret = IF ChatRaises(tag) THEN "throw" ELSE tag]
    /\ UNCHANGED <<peerConnections, dataChannels, dcKeys, callbacks, transcription, recorder, localStream,
                   reading, conns, chans, chain, tasks, signals, bus>>

\* Control messages: sessions with their transport and channels, and the
\* control messages arriving on the open channels.
NextTags ==
    \/ Signaling
    \/ Settlement
    \/ Transport
    \/ \E c \in ConnIds : OnDataChannel(c)
    \/ \E h \in ChanIds : ChannelOpen(h)
    \/ \E h \in ChanIds : \E tag \in ControlTags : OnControlMessage(h, tag)

SpecTags == Init /\ [][NextTags]_vars

\* The rest of the page's state, for the actions of the two managers below.
SessionsUnchanged ==
    UNCHANGED <<peerConnections, dataChannels, dcKeys, callbacks, localStream,
                reading, conns, chans, chain, tasks, signals, bus>>

\* TranscriptionManager.start (src/rtc.js 419-435).  recognition.start()
\* raises when the recognizer is not idle; raises is whether updateUI or a
\* callback of 'started' raises.  Both are caught and make start return
\* false.
start(T, raises) ==
    IF ~T.recognition \/ T.engine # "idle" THEN [t |-> T, ret |-> "false"]
    ELSE LET T1 == [T EXCEPT !.engine = "listening", !.isRecording = TRUE]
         IN  IF raises THEN [t |-> T1, ret |-> "false"]
             ELSE [t |-> [T1 EXCEPT !.armed = TRUE], ret |-> "true"]

\* TranscriptionManager.stop (src/rtc.js 440-447).
stop(T) ==
    IF T.recognition /\ T.isRecording
    THEN [T EXCEPT !.isRecording = FALSE, !.armed = FALSE,
                   !.engine = IF @ = "listening" THEN "ending" ELSE @]
    ELSE [T EXCEPT !.armed = FALSE]

TranscriptionStart ==
    /\ \E raises \in BOOLEAN :
         LET r == start(transcription, raises)
         IN  /\ transcription' = r.t
             /\ last' = [Op("transcription-start", 0) EXCEPT !.ret = r.ret]
    /\ UNCHANGED recorder
    /\ SessionsUnchanged

TranscriptionStop ==
    /\ transcription' = stop(transcription)
    /\ last' = Op("transcription-stop", 0)
    /\ UNCHANGED recorder
    /\ SessionsUnchanged

\* TranscriptionManager.toggle (src/rtc.js 452-459).
TranscriptionToggle ==
    /\ \E raises \in BOOLEAN :
         transcription' = IF transcription.isRecording THEN stop(transcription)
                          ELSE start(transcription, raises).t
    /\ last' = [Op("transcription-toggle", 0) EXCEPT
                   !.ret = IF transcription'.isRecording THEN "true" ELSE "false"]
    /\ UNCHANGED recorder
    /\ SessionsUnchanged

\* recognition.onend (src/rtc.js 407-412): the recognizer has ended, by
\* itself or after stop, and is started again while isRecording is true.
RecognitionEnd ==
    /\ transcription.engine # "idle"
    /\ transcription.isRecording => transcription.restarts < MaxRestarts
    /\ transcription' =
          IF transcription.isRecording
          THEN [transcription EXCEPT !.engine = "listening", !.restarts = @ + 1]
          ELSE [transcription EXCEPT !.engine = "idle"]
    /\ last' = [Op("recognition-end", 0) EXCEPT
                   !.ret = IF transcription.isRecording THEN "restarted" ELSE "none"]
    /\ UNCHANGED recorder
    /\ SessionsUnchanged

\* RecordingManager.start (src/recording.js 19-80) up to its first await,
\* getDisplayMedia.
RecordingStart ==
    /\ \E i \in StartIds :
         /\ recorder.starts[i] = "idle"
         /\ recorder' = [recorder EXCEPT !.starts[i] = "getDisplayMedia"]
    /\ last' = Op("recording-start", 0)
    /\ UNCHANGED transcription
    /\ SessionsUnchanged

\* getDisplayMedia settles (src/recording.js 22-30): start goes on to
\* getUserMedia, or the rejection is caught and start returns false.
DisplayMediaSettled(i) ==
    /\ recorder.starts[i] = "getDisplayMedia"
    /\ \E ok \in BOOLEAN :
         /\ recorder' = [recorder EXCEPT
                            !.starts[i] = IF ok THEN "getUserMedia" ELSE "idle"]
         /\ last' = [Op("recording-start", 0) EXCEPT
                        !.ret = IF ok THEN "none" ELSE "false"]
    /\ UNCHANGED transcription
    /\ SessionsUnchanged

\* getUserMedia settles either way (src/recording.js 33-42) and start runs
\* to its end (lines 44-76): a new MediaRecorder is stored in
\* this.mediaRecorder and started, isRecording is set, and startTimer
\* (lines 169-180) stores a new interval in this.timerInterval.
UserMediaSettled(i) ==
    /\ recorder.starts[i] = "getUserMedia"
    /\ recorder.made < MaxRecorders
    /\ LET n == recorder.made + 1
       IN  recorder' = [recorder EXCEPT
                           !.starts[i] = "idle", !.made = n,
                           !.mediaRecorder = n, !.recording = @ \cup {n},
                           !.isRecording = TRUE,
                           !.timerInterval = n, !.timers = @ \cup {n}]
    /\ last' = [Op("recording-start", 0) EXCEPT !.ret = "true"]
    /\ UNCHANGED transcription
    /\ SessionsUnchanged

\* RecordingManager.stop (src/recording.js 88-98) with stopTimer
\* (lines 185-190).
recordingStop(R) ==
    IF R.mediaRecorder # 0 /\ R.isRecording
    THEN [R EXCEPT !.recording = @ \ {R.mediaRecorder},
                   !.isRecording = FALSE,
                   !.timers = @ \ {R.timerInterval},
                   !.timerInterval = 0]
    ELSE R

RecordingStop ==
    /\ recorder' = recordingStop(recorder)
    /\ last' = Op("recording-stop", 0)
    /\ UNCHANGED transcription
    /\ SessionsUnchanged

\* RecordingManager.toggle (src/recording.js 103-110), the click handler
\* of the record button (lines 218-220).
RecordingToggle ==
    /\ IF recorder.isRecording
       THEN recorder' = recordingStop(recorder)
       ELSE \E i \in StartIds :
              /\ recorder.starts[i] = "idle"
              /\ recorder' = [recorder EXCEPT !.starts[i] = "getDisplayMedia"]
    /\ last' = Op(IF recorder.isRecording THEN "recording-stop" ELSE "recording-start", 0)
    /\ UNCHANGED transcription
    /\ SessionsUnchanged

\* The controls of the page: transcription and recording.
NextControls ==
    \/ TranscriptionStart
    \/ TranscriptionStop
    \/ TranscriptionToggle
    \/ RecognitionEnd
    \/ RecordingStart
    \/ \E i \in StartIds : DisplayMediaSettled(i)
    \/ \E i \in StartIds : UserMediaSettled(i)
    \/ RecordingStop
    \/ RecordingToggle

\* The page with and without the Web Speech API (src/rtc.js 389-392):
\* without it init leaves this.recognition null.
InitControls ==
    /\ peerConnections = [p \in Peers |-> 0]
    /\ dataChannels = [p \in Peers |-> 0]
    /\ dcKeys = <<>>
    /\ callbacks = [e \in EventNames |-> <<>>]
    /\ localStream = NoStream
    /\ reading = <<>>
    /\ \E api \in BOOLEAN :
         transcription = [NoTranscription EXCEPT !.recognition = api]
    /\ recorder = NoRecorder
    /\ conns = [c \in ConnIds |-> NoConn]
    /\ chans = [h \in ChanIds |-> NoChan]
    /\ chain = [c \in ConnIds |-> <<>>]
    /\ tasks = [t \in TaskIds |-> IdleTask]
    /\ signals = 0
    /\ bus = [p \in Peers |-> <<>>]
    /\ last = NoLast

SpecControls == InitControls /\ [][NextControls]_vars

\* Candidates and the transport: signaling with candidates, settlements and
\* the connection state changes of the transport.
NextIce ==
    \/ Signaling
    \/ Settlement
    \/ Transport
    \/ \E p \in Peers : Receive /\ OnIce(p)
    \/ \E t \in TaskIds : AddIceSettled(t) /\ UNCHANGED bus

SpecIce == Init /\ [][NextIce]_vars

\* Everything.
Next ==
    \/ NextNeg
    \/ NextDisc
    \/ NextChan
    \/ NextMsg
    \/ NextRem
    \/ NextReg
    \/ NextIce
    \/ NextMedia
    \/ NextFile
    \/ NextOffer
    \/ NextTags
    \/ NextControls

Spec == Init /\ [][Next]_vars

\* ---- two participants --------------------------------------------------
\* Participant A is in the room, participant B joins it: both run the same
\* page, and B's join reaches A.  A manager never handles its own messages
\* (src/rtc.js 327), so A's registry only ever has the key B and B's only
\* the key A.  The two registries are kept in the one map: entry B is A's
\* entry for B, entry A is B's entry for A, and a connection constructed
\* for peer p belongs to the participant other than p.
A == 1
B == 2
Pair == {A, B}
Other(p) == IF p = A THEN B ELSE A
Owner(c) == Other(conns[c].peer)

\* Candidates one connection gathers.
GatherCap == MaxIce \div 2

\* The message LocalSignaling.send builds (src/rtc.js 337-344): type, from
\* (the sender's own peer id), to (0 for null).  conn is the connection
\* whose handler or callback sent it, 0 for the join.
Envelope(type, from, to, c) == [type |-> type, from |-> from, to |-> to, conn |-> c]

\* LocalSignaling.send (src/rtc.js 337-344) of participant self:
\* BroadcastChannel.postMessage.  The messages of one sender are delivered
\* in the order it posted them.
Post(self, msgs) ==
    bus' = [bus EXCEPT ![self] =
                @ \o [i \in 1..Len(msgs) |->
                         Envelope(msgs[i].type, self, msgs[i].to, msgs[i].conn)]]

\* signaling.send of the handler that ended in this step
\* (src/recording.js 302, 308), run by the participant the handler's
\* connection belongs to.
PostSent ==
    IF last'.signal = <<>> THEN UNCHANGED bus
    ELSE Post(Owner(last'.signal[1].conn), last'.signal)

\* The filter of LocalSignaling channel.onmessage (src/rtc.js 325-327):
\* participant r handles a broadcast or a message directed to it, and
\* never its own.
Accepts_all(r, m) == TRUE

Accepts(r, m) ==
    IF m.to # 0 /\ m.to # r THEN FALSE
    ELSE IF m.from = r THEN FALSE
    ELSE TRUE

\* LocalSignaling channel.onmessage (src/rtc.js 322-330): the oldest
\* undelivered message of sender s reaches the other participant, whose
\* callback for its type is called with the message's from.
Delivered(s, type) ==
    /\ bus[s] # <<>> /\ Head(bus[s]).type = type
    /\ Accepts(Other(s), Head(bus[s]))
    /\ bus' = [bus EXCEPT ![s] = Tail(@)]
    /\ UNCHANGED signals

Sender(s) == Head(bus[s]).from

\* pc.onicecandidate (src/rtc.js 45-52) emits iceCandidate, whose callback
\* sends the candidate to the peer (src/recording.js 321-323).  The
\* connection gathers candidates once its local description is set.
OnIceCandidate(c) ==
    /\ Allocated(c) /\ ~conns[c].closed
    /\ conns[c].local # "none"
    /\ conns[c].gathered < GatherCap
    /\ conns' = [conns EXCEPT ![c].gathered = @ + 1]
    /\ Post(Owner(c), <<Msg("ice-candidate", conns[c].peer, c)>>)
    /\ last' = NoLast
    /\ UNCHANGED <<peerConnections, dataChannels, dcKeys, callbacks, transcription, recorder, localStream, reading, chans, chain,
                   tasks, signals>>

\* The transport of connection c when nothing fails: it is connected once
\* a candidate of the other side has been applied on both connections.
Counterparts(c) == {d \in ConnIds : Allocated(d) /\ ~conns[d].closed /\ Owner(d) = conns[c].peer}

IcePaired(c) ==
    /\ conns[c].applied # <<>>
    /\ \E d \in Counterparts(c) : conns[d].applied # <<>>

InitPair ==
    /\ peerConnections = [p \in Peers |-> 0]
    /\ dataChannels = [p \in Peers |-> 0]
    /\ dcKeys = <<>>
    /\ callbacks = [e \in EventNames |-> <<>>]
    /\ localStream = NoStream
    /\ reading = <<>>
    /\ transcription = NoTranscription
    /\ recorder = NoRecorder
    /\ conns = [c \in ConnIds |-> NoConn]
    /\ chans = [h \in ChanIds |-> NoChan]
    /\ chain = [c \in ConnIds |-> <<>>]
    /\ tasks = [t \in TaskIds |-> IdleTask]
    /\ signals = 0
    /\ bus = [p \in Peers |-> IF p = B THEN <<Envelope("join", B, 0, 0)>> ELSE <<>>]
    /\ last = NoLast

PairSignaling ==
    \/ \E s \in Pair : Delivered(s, "join") /\ OnJoin(Sender(s))
    \/ \E s \in Pair : Delivered(s, "offer") /\ OnOffer(Sender(s))
    \/ \E s \in Pair : Delivered(s, "answer") /\ OnAnswer(Sender(s))
    \/ \E s \in Pair : Delivered(s, "ice-candidate") /\ OnIce(Sender(s))

PairSettlement ==
    \/ \E t \in TaskIds : CreateOfferSettled(t) /\ PostSent
    \/ \E t \in TaskIds : SetLocalOfferSettled(t) /\ PostSent
    \/ \E t \in TaskIds : SetRemoteOfferSettled(t) /\ PostSent
    \/ \E t \in TaskIds : CreateAnswerSettled(t) /\ PostSent
    \/ \E t \in TaskIds : SetLocalAnswerSettled(t) /\ PostSent
    \/ \E t \in TaskIds : SetRemoteAnswerSettled(t) /\ PostSent
    \/ \E t \in TaskIds : AddIceSettled(t) /\ PostSent

\* Any message on the bus, as seen by participant A: a participant posts
\* a message of any type to anybody or to nobody in particular, one at a
\* time per sender.
SignalTypes == {"join", "offer", "answer", "ice-candidate"}

PostAny(s, type, to) ==
    /\ bus[s] = <<>>
    /\ signals < MaxSignals
    /\ bus' = [bus EXCEPT ![s] = <<Envelope(type, s, to, 0)>>]
    /\ last' = NoLast
    /\ UNCHANGED <<peerConnections, dataChannels, dcKeys, callbacks, transcription, recorder, localStream,
                   reading, conns, chans, chain, tasks, signals>>

\* LocalSignaling emit (src/rtc.js 357-360) of an accepted message: the
\* callback registered for its type (src/recording.js 296-318) is called
\* with the message's from.
Dispatch(m) ==
    CASE m.type = "join" -> OnJoin(m.from)
      [] m.type = "offer" -> OnOffer(m.from)
      [] m.type = "answer" -> OnAnswer(m.from)
      [] m.type = "ice-candidate" -> OnIce(m.from)

\* LocalSignaling channel.onmessage (src/rtc.js 322-330) of participant r
\* for the message of sender s: a message that is for another participant
\* or its own is dropped, any other one is dispatched.
OnBusMessage(r, s) ==
    /\ bus[s] # <<>>
    /\ bus' = [bus EXCEPT ![s] = Tail(@)]
    /\ signals' = signals + 1
    /\ IF Accepts(r, Head(bus[s]))
       THEN Dispatch(Head(bus[s]))
       ELSE /\ last' = [Op("filtered", Head(bus[s]).from) EXCEPT !.ret = "none"]
            /\ UNCHANGED <<peerConnections, dataChannels, dcKeys, callbacks, transcription, recorder,
                           localStream, reading, conns, chans, chain, tasks>>

NextBus ==
    \/ \E s \in Pair : \E type \in SignalTypes : \E to \in {0} \cup Pair :
          PostAny(s, type, to)
    \/ \E s \in Pair : OnBusMessage(A, s)
    \/ Settlement
    \/ \E t \in TaskIds : AddIceSettled(t) /\ UNCHANGED bus
    \/ CloseAll

SpecBus == Init /\ [][NextBus]_vars

PairGathering == \E c \in ConnIds : OnIceCandidate(c)

\* pc.ondatachannel (src/rtc.js 84-86) between the two participants: once
\* both connections are connected, a channel g the other side created and
\* has not announced yet arrives on connection c as channel h.
AcceptChannel(c) ==
    /\ Allocated(c) /\ ~conns[c].closed
    /\ conns[c].state = "connected"
    /\ FreeChans # {}
    /\ \E g \in ChanIds :
         /\ ChanAllocated(g) /\ chans[g].twin = 0
         /\ chans[g].readyState # "closed"
         /\ chans[g].conn \in Counterparts(c)
         /\ conns[chans[g].conn].state = "connected"
         /\ LET h == Min(FreeChans)
            IN  Commit([ondatachannel(Cur, c, h, g) EXCEPT !.chans[g].twin = h])
    /\ last' = NoLast
    /\ UNCHANGED <<callbacks, transcription, recorder, localStream, reading, chain, tasks, signals, bus>>

PairChannels ==
    \/ \E c \in ConnIds : AcceptChannel(c)
    \/ \E h \in ChanIds : ChannelOpen(h)

PairTransport ==
    \E c \in ConnIds : \E s \in {"connecting", "connected"} :
        /\ s = "connected" => IcePaired(c)
        /\ ConnectionStateChange(c, s)

NextPair ==
    \/ PairSignaling
    \/ PairSettlement
    \/ PairGathering
    \/ PairTransport
    \/ PairChannels

\* The event loop runs every queued task and the browser settles every
\* pending operation of an open connection.
SpecPair ==
    /\ InitPair
    /\ [][NextPair]_vars
    /\ WF_vars(PairSignaling)
    /\ WF_vars(PairSettlement)
    /\ WF_vars(PairGathering)
    /\ WF_vars(PairTransport)
    /\ WF_vars(PairChannels)

\* ---- properties --------------------------------------------------------
LiveConns(p) == {c \in ConnIds : conns[c].peer = p /\ ~conns[c].closed}

InFlight(t) == tasks[t].pos # "idle"

Stepped(t) == InFlight(t) /\ tasks'[t] # tasks[t]

DescriptionsUnchanged ==
    \A c \in ConnIds : /\ conns'[c].local = conns[c].local
                       /\ conns'[c].remote = conns[c].remote

IsPrefix(a, b) == Len(a) <= Len(b) /\ SubSeq(b, 1, Len(a)) = a

Occurrences(seq, x) == Cardinality({i \in 1..Len(seq) : seq[i] = x})

\* C1: every peer id has at most one connection that was created and not
\* yet closed, and that connection is the one the registry maps it to.
C1_OneSessionPerPeer ==
    \A p \in Peers :
        /\ Cardinality(LiveConns(p)) <= 1
        /\ \A c \in LiveConns(p) : peerConnections[p] = c

\* C2: a candidate received before the remote description is set is not
\* applied while the remote description is unset, and once it is set (and
\* no addIceCandidate is pending) all of them have been applied, in the
\* order received.
C2_CandidatesQueued ==
    \A c \in ConnIds :
        (Allocated(c) /\ ~conns[c].closed) =>
            /\ conns[c].remote = "none" => conns[c].applied = <<>>
            /\ (/\ conns[c].remote # "none"
                /\ ~\E t \in TaskIds : tasks[t].pos = "addIce" /\ tasks[t].conn = c)
               => IsPrefix(conns[c].early, conns[c].applied)

\* C3: sendMessage(p, m) returns false and hands nothing over when p has no
\* channel or its channel is not open; otherwise it returns true and the
\* message is handed to p's channel and to no other.
C3_SendContract ==
    last.op = "sendMessage" =>
        IF ChannelReady(dataChannels[last.peer])
        THEN last.ret = "true" /\ last.handed = <<dataChannels[last.peer]>>
        ELSE last.ret = "false" /\ last.handed = <<>>

\* C4: broadcast(m) hands the message exactly once to every peer whose
\* channel is open and to no channel that is not open.
C4_BroadcastContract ==
    last.op = "broadcast" =>
        /\ \A q \in Peers : ChannelReady(dataChannels[q]) =>
               Occurrences(last.handed, dataChannels[q]) = 1
        /\ \A i \in 1..Len(last.handed) :
               \E q \in Peers : /\ dataChannels[q] = last.handed[i]
                                /\ ChannelReady(dataChannels[q])

\* C5: when the transport of P's registered session reports failed or
\* disconnected, P is removed from the registry and exactly one
\* peerDisconnected event is emitted for that session over its lifetime.
PeerDisconnectedEmits(p) ==
    Cardinality({i \in 1..Len(last.emits) :
                    /\ last.emits[i].event = "peerDisconnected"
                    /\ last.emits[i].peer = p})

C5_DisconnectRemovesOnce ==
    /\ \A c \in ConnIds :
           /\ conns[c].disc <= 1
           /\ (Allocated(c) /\ peerConnections[conns[c].peer] = c)
                  => conns[c].state \notin {"failed", "disconnected"}
    /\ last.op \in {"failed", "disconnected"} =>
           /\ peerConnections[last.peer] = 0
           /\ dataChannels[last.peer] = 0
           /\ PeerDisconnectedEmits(last.peer) = 1

\* C6: removePeer(P) and the disconnection of P leave every other peer Q
\* as it was: Q's registry entries, its connection, its channel, and no
\* event is emitted for Q.
OthersUntouched(p) ==
    \A q \in Peers \ {p} :
        /\ peerConnections'[q] = peerConnections[q]
        /\ dataChannels'[q] = dataChannels[q]
        /\ peerConnections[q] # 0 => conns'[peerConnections[q]] = conns[peerConnections[q]]
        /\ dataChannels[q] # 0 => chans'[dataChannels[q]] = chans[dataChannels[q]]
        /\ \A i \in 1..Len(last'.emits) : last'.emits[i].peer # q

DisconnectionOf(p) ==
    \E c \in ConnIds : \E s \in {"failed", "disconnected"} :
        conns[c].peer = p /\ ConnectionStateChange(c, s)

C6_OtherPeersUnaffected ==
    [][\A p \in Peers : (RemovePeer(p) \/ DisconnectionOf(p)) => OthersUntouched(p)]_vars

\* C6 witness: P was disconnected and removed while another peer has a
\* connection and a channel registered.
C6_Witness ==
    /\ last.op \in {"failed", "disconnected"}
    /\ peerConnections[last.peer] = 0
    /\ PeerDisconnectedEmits(last.peer) = 1
    /\ \E q \in Peers \ {last.peer} : peerConnections[q] # 0 /\ dataChannels[q] # 0

\* C7: when an event is emitted, every callback registered for it is
\* invoked, also those registered after one that throws.
C7_CallbacksIsolated ==
    \A i \in 1..Len(last.emits) :
        last.emits[i].invoked = callbacks[last.emits[i].event]

\* C8: a createOffer, handleOffer or handleAnswer for P whose session was
\* removed while it was suspended applies no description to any
\* connection and sends no offer or answer afterwards.
C8_RemovedIsNoOp ==
    [][\A t \in TaskIds :
          (Stepped(t) /\ tasks[t].removed /\ tasks[t].kind \in {"join", "offer", "answer"})
              => (DescriptionsUnchanged /\ last'.signal = <<>>)]_vars

\* C9: operations on one peer id do not interleave: no operation for a
\* peer id has started while an earlier one for it is suspended.
C9_SerializedPerPeer ==
    \A t1, t2 \in TaskIds :
        (t1 # t2 /\ InFlight(t1) /\ InFlight(t2)) => tasks[t1].peer # tasks[t2].peer

\* C10: an offer or answer that arrives out of the negotiation order is
\* ignored: it changes no description, no answer is sent for it, and its
\* handler does not fail.
C10_ConflictIgnored ==
    [][\A t \in TaskIds :
          (Stepped(t) /\ tasks[t].conflict /\ ~conns[tasks[t].conn].closed)
              => /\ DescriptionsUnchanged
                 /\ last'.signal = <<>>
                 /\ last'.ret # "failed"]_vars

\* C11: with two participants A and B where A receives B's join, no
\* message lost and no transport failure: A has sent its offer and applied
\* B's answer, B has applied the offer and sent its answer, candidates of
\* the other side are applied on both, and eventually both report
\* connected for each other.
Established ==
    /\ peerConnections[B] # 0 /\ peerConnections[A] # 0
    /\ LET a == conns[peerConnections[B]]
           b == conns[peerConnections[A]]
       IN  /\ a.local = "offer" /\ a.remote = "answer"
           /\ b.remote = "offer" /\ b.local = "answer"
           /\ a.applied # <<>> /\ b.applied # <<>>
           /\ a.state = "connected" /\ b.state = "connected"

C11_EventuallyConnected == <>[]Established

\* C11 witness: both sides are connected and every message was delivered.
C11_Witness == Established /\ \A p \in Peers : bus[p] = <<>>

\* C12: every sendMessage to a peer whose channel is not (yet) open returns
\* false, every sendMessage while it is open returns true, and a message
\* reaches the channel, and so the receiver, only from a send that
\* returned true: a send that returned false has put nothing on it.
C12_SendGatedByOpen ==
    last.op = "sendMessage" =>
        /\ ~ChannelReady(dataChannels[last.peer]) => last.ret = "false"
        /\ ChannelReady(dataChannels[last.peer]) => last.ret = "true"
        /\ last.handed # <<>> => last.ret = "true"
        /\ last.ret = "false" => last.handed = <<>>

\* C13: an inbound payload that parses as JSON is emitted as
\* dataChannelMessage and no dataChannelBinary callback is invoked for it,
\* whatever the dataChannelMessage callbacks do; one that does not parse is
\* emitted as dataChannelBinary and no dataChannelMessage callback is
\* invoked for it.
EmittedAs(event) == \E i \in 1..Len(last.emits) : last.emits[i].event = event

DeliveredTo(event) ==
    \E i \in 1..Len(last.emits) :
        last.emits[i].event = event /\ last.emits[i].invoked # <<>>

C13_RoutedToOneHandler ==
    /\ last.op = "payload-json" =>
           EmittedAs("dataChannelMessage") /\ ~DeliveredTo("dataChannelBinary")
    /\ last.op = "payload-binary" =>
           EmittedAs("dataChannelBinary") /\ ~DeliveredTo("dataChannelMessage")

\* C14: a peer id has a channel registered only if it has a connection
\* registered that is live: not closed, and neither failed nor
\* disconnected.
LiveStates == {"new", "connecting", "connected"}

C14_ChannelOnlyWithLiveConnection ==
    \A p \in Peers :
        dataChannels[p] # 0 =>
            /\ peerConnections[p] # 0
            /\ ~conns[peerConnections[p]].closed
            /\ conns[peerConnections[p]].state \in LiveStates

\* C15: removePeer(p) closes p's connection and p's channel and deletes
\* both entries, and it does not fail, also when closing the connection
\* or the channel raises an error.
RemovePeerCalled(p) == RemovePeer(p) \/ RemovePeerRaising(p)

C15_RemoveSwallowsCloseErrors ==
    [][\A p \in Peers :
          RemovePeerCalled(p) =>
              /\ peerConnections'[p] = 0 /\ dataChannels'[p] = 0
              /\ peerConnections[p] # 0 => conns'[peerConnections[p]].closed
              /\ dataChannels[p] # 0 => chans'[dataChannels[p]].readyState = "closed"
              /\ last'.ret # "throw"]_vars

\* C16: removePeer(p) for a peer id with nothing registered, as after an
\* earlier removePeer(p), changes no registry entry, no connection, no
\* channel and no suspended handler, emits no event and does not fail.
NoSession(p) == peerConnections[p] = 0 /\ dataChannels[p] = 0

C16_RemoveIdempotent ==
    [][\A p \in Peers :
          (NoSession(p) /\ RemovePeerCalled(p)) =>
              /\ UNCHANGED <<peerConnections, dataChannels, dcKeys, conns, chans,
                             tasks, chain, callbacks, transcription, recorder, localStream, reading>>
              /\ last'.emits = <<>>
              /\ last'.ret # "throw"]_vars

\* C16 witness: removePeer was called for a peer id that had a connection
\* closed before and nothing registered, while another peer has a session.
C16_Witness ==
    /\ last.op = "removePeer" /\ last.ret = "no-op"
    /\ \E c \in ConnIds : conns[c].peer = last.peer /\ conns[c].closed
    /\ \E q \in Peers \ {last.peer} : peerConnections[q] # 0 /\ dataChannels[q] # 0

\* C17: after closeAll the registry holds no connection and no channel,
\* and every connection and every channel that was registered before the
\* call is closed.
C17_CloseAllClosesEverything ==
    [][CloseAll =>
          \A p \in Peers :
              /\ peerConnections'[p] = 0 /\ dataChannels'[p] = 0
              /\ peerConnections[p] # 0 => conns'[peerConnections[p]].closed
              /\ dataChannels[p] # 0 =>
                     chans'[dataChannels[p]].readyState = "closed"]_vars

\* C18: a join from a peer id that has a live connection registered does
\* not replace it: the connection and the channel registered for the peer
\* id after the handler started are those registered before.
C18_CreateKeepsExisting ==
    [][\A p \in Peers :
          (/\ OnJoin(p)
           /\ peerConnections[p] # 0
           /\ ~conns[peerConnections[p]].closed
           /\ conns[peerConnections[p]].state \in LiveStates)
              => /\ peerConnections'[p] = peerConnections[p]
                 /\ dataChannels'[p] = dataChannels[p]]_vars

\* C19: addIceCandidate, handleAnswer, createDataChannel and sendMessage
\* for a peer id with nothing registered create no session, change no
\* registry entry, no connection, no channel and no suspended handler,
\* emit no event, send nothing and do not fail.
CalledFor(p) ==
    \/ OnIce(p)
    \/ OnAnswer(p)
    \/ CreateDataChannel(p)
    \/ SendMessage(p)

C19_UnknownPeerDropped ==
    [][\A p \in Peers :
          (NoSession(p) /\ CalledFor(p)) =>
              /\ UNCHANGED <<peerConnections, dataChannels, dcKeys, conns, chans,
                             tasks, chain, callbacks, transcription, recorder, localStream, reading>>
              /\ last'.emits = <<>> /\ last'.signal = <<>> /\ last'.handed = <<>>
              /\ last'.ret \notin {"throw", "failed"}]_vars

\* C19 witness: a candidate, an answer, a createDataChannel or a
\* sendMessage for a peer id whose session was removed before was dropped
\* while another peer has a session.
C19_Witness ==
    /\ \/ last.op \in {"ice", "answer"} /\ last.ret = "dropped"
       \/ last.op = "createDataChannel" /\ last.ret = "null"
       \/ last.op = "sendMessage" /\ last.ret = "false"
    /\ NoSession(last.peer)
    /\ \E c \in ConnIds : conns[c].peer = last.peer /\ conns[c].closed
    /\ \E q \in Peers \ {last.peer} : peerConnections[q] # 0 /\ dataChannels[q] # 0

\* C20: sendMessage ends with a boolean result for every peer id and every
\* channel state, also when channel.send raises.
C20_SendNeverThrows ==
    last.op = "sendMessage" => last.ret \in {"true", "false"}

\* C21: broadcast does not fail, and when handing the message to one open
\* channel fails, every other open channel still gets the message: at most
\* the one channel whose send failed is left out.
LeftOut ==
    {q \in Peers : /\ ChannelReady(dataChannels[q])
                   /\ Occurrences(last.handed, dataChannels[q]) = 0}

C21_BroadcastBestEffort ==
    last.op = "broadcast" =>
        /\ last.ret # "throw"
        /\ Cardinality(LeftOut) <= 1

\* C22: once the session with P has been torn down on a transport failure,
\* nothing is sent to P and nothing is created or registered for P by any
\* step other than the arrival of a join or an offer from P; a join from P
\* then makes a session from a new connection and a new channel, both in
\* their initial state.
TornDown(p) ==
    /\ NoSession(p)
    /\ \E c \in ConnIds : conns[c].peer = p /\ conns[c].disc > 0

SentTo(p) == {i \in 1..Len(last.signal) : last.signal[i].to = p}

FreshSession(p) ==
    LET c == peerConnections'[p]
        h == dataChannels'[p]
    IN  /\ c \in FreeConns /\ h \in FreeChans
        /\ conns'[c] = [NoConn EXCEPT !.peer = p]
        /\ chans'[h] = [NoChan EXCEPT !.conn = c, !.readyState = "connecting"]

C22_NoReconnection ==
    [][\A p \in Peers : TornDown(p) =>
          /\ ~(OnJoin(p) \/ OnOffer(p)) =>
                /\ NoSession(p)'
                /\ SentTo(p)' = {}
                /\ \A c \in FreeConns : conns'[c].peer # p
          /\ OnJoin(p) => FreshSession(p)]_vars

\* C23: registration only appends to the list of its event name, and every
\* emit invokes, before it returns, all the callbacks registered for its
\* event, in the order of their registration, and no callback registered
\* for another event name.
InRegistrationOrder(cbs) ==
    \A i, j \in 1..Len(cbs) : i < j => cbs[i] < cbs[j]

Elements(cbs) == {cbs[i] : i \in 1..Len(cbs)}

C23_EmitInvokesAllInOrder ==
    [][/\ \A e \in EventNames : IsPrefix(callbacks[e], callbacks'[e])
       /\ \A i \in 1..Len(last'.emits) :
              LET m == last'.emits[i]
              IN  /\ m.invoked = callbacks[m.event]
                  /\ InRegistrationOrder(m.invoked)
                  /\ \A e \in EventNames \ {m.event} :
                         Elements(m.invoked) \cap Elements(callbacks[e]) = {}]_vars

\* C24: every offer, answer and candidate on the bus is directed: its to is
\* the peer of the session whose connection sent it and its from is the
\* local peer id of the participant that owns that connection; every join
\* has no addressee (to is null).
Directed(m) ==
    /\ m.conn \in ConnIds /\ Allocated(m.conn)
    /\ m.to = conns[m.conn].peer
    /\ m.from = Owner(m.conn)
    /\ m.to # m.from

C24_MessagesDirected ==
    \A s \in Pair : \A i \in 1..Len(bus[s]) :
        LET m == bus[s][i]
        IN  /\ m.from = s
            /\ m.type = "join" => m.to = 0
            /\ m.type \in {"offer", "answer", "ice-candidate"} => Directed(m)

\* C24 witness: an answer and a candidate of one participant and a
\* candidate of the other are on the bus.
OnBus(s, type) == \E i \in 1..Len(bus[s]) : bus[s][i].type = type

C24_Witness ==
    \E s \in Pair :
        /\ OnBus(s, "answer") /\ OnBus(s, "ice-candidate")
        /\ OnBus(Other(s), "ice-candidate")

\* C25: the two participants use one data channel.  The side that sent the
\* offer created it and holds it from then on, the other side's entry is
\* the end it accepted through ondatachannel, no connection carries a
\* second channel, and in the end both sides are connected and their two
\* registry entries are the two ends of that channel.
ChannelsOn(c) == {h \in ChanIds : chans[h].conn = c}

OneChannel ==
    /\ \A c \in ConnIds : Cardinality(ChannelsOn(c)) <= 1
    /\ \A p \in Pair :
         peerConnections[p] # 0 =>
            LET c == peerConnections[p]
                h == dataChannels[p]
            IN  /\ conns[c].local = "offer" =>
                      h # 0 /\ chans[h].conn = c
                /\ (conns[c].remote = "offer" /\ h # 0) =>
                      /\ chans[h].conn = c
                      /\ chans[h].twin = dataChannels[Other(p)]
                      /\ chans[chans[h].twin].twin = h

ChannelPaired ==
    /\ Established
    /\ \A p \in Pair :
         /\ dataChannels[p] # 0
         /\ chans[dataChannels[p]].conn = peerConnections[p]
         /\ chans[dataChannels[p]].twin = dataChannels[Other(p)]
    /\ Cardinality({h \in ChanIds : ChanAllocated(h)}) = 2

ArrivedEarly(t) ==
    \E i \in 1..Len(conns[TaskConn(t)].early) :
        conns[TaskConn(t)].early[i] = tasks[t].cand

C26_CandidateAppliedInAnyState ==
    [][\A t \in TaskIds :
          (AddIceSettled(t) /\ ~ArrivedEarly(t)) =>
              conns'[TaskConn(t)].applied =
                  Append(conns[TaskConn(t)].applied, tasks[t].cand)]_vars

\* C26 witness: a candidate has just been applied on a connected
\* connection, none of whose candidates arrived early.
C26_Witness ==
    /\ last.op = "ice" /\ last.ret = "ok"
    /\ peerConnections[last.peer] # 0
    /\ LET c == conns[peerConnections[last.peer]]
       IN  /\ c.state = "connected"
           /\ c.early = <<>>
           /\ Len(c.applied) = c.ice /\ c.ice > 0

\* C27: a connection gets, when it is created (by the join handler or by
\* handleOffer for an unknown peer), the tracks of the local stream set at
\* that moment; with no local stream set it is created with no tracks; in
\* both cases it is registered for its peer.
TracksToAttach == IF localStream.set THEN localStream.tracks ELSE {}

C27_TracksAttachedAtCreation ==
    [][\A c \in ConnIds :
          (~Allocated(c) /\ conns'[c].peer # 0) =>
              /\ conns'[c].tracks = TracksToAttach
              /\ peerConnections'[conns'[c].peer] = c]_vars

\* C27 witness: one registered connection was created before any local
\* stream was set and has no tracks, another was created after and has
\* the stream's tracks.
C27_Witness ==
    \E p, q \in Peers :
        /\ peerConnections[p] # 0 /\ peerConnections[q] # 0
        /\ conns[peerConnections[p]].tracks = {}
        /\ conns[peerConnections[q]].tracks = {"audio", "video"}

\* C28: when the file of a sendFile has been read, each of its chunks is
\* handed to every channel the file-info message was handed to, so that
\* the chunks follow the file-info message on the same channels.
C28_ChunksFollowFileInfo ==
    [][\A i \in 1..Len(reading) :
          FileLoaded(i) =>
              \A j \in 1..Len(reading[i].info) :
                  Occurrences(last'.handed, reading[i].info[j]) = reading[i].chunks]_vars

\* C29: when a handler sends an offer, its connection has that offer as
\* local description; when a handler sends an answer, its connection has
\* the offer as remote description and the answer as local description,
\* and its negotiation is complete.
SetBeforeSent(m) ==
    LET c == conns[m.conn]
    IN  /\ m.type = "offer" =>
              c.local = "offer" /\ c.sig = "have-local-offer"
        /\ m.type = "answer" =>
              c.remote = "offer" /\ c.local = "answer" /\ c.sig = "stable"

C29_DescriptionsSetBeforeSent ==
    \A i \in 1..Len(last.signal) : SetBeforeSent(last.signal[i])

\* C29 witness: an offer handler has just sent its answer, which is the
\* local description of its connection.
C29_Witness ==
    /\ last.op = "offer" /\ last.ret = "ok"
    /\ Len(last.signal) = 1 /\ last.signal[1].type = "answer"
    /\ conns[last.signal[1].conn].local = "answer"

\* C30: handleOffer for a peer with no registered connection creates and
\* registers exactly one new connection for it; for a peer with a
\* registered connection it creates none and negotiates on that one.
Connections == {c \in ConnIds : Allocated(c)}

C30_OfferCreatesOnlyWhenUnknown ==
    [][\A p \in Peers :
          OnOffer(p) =>
              LET c == peerConnections'[p]
              IN  /\ IF peerConnections[p] = 0
                     THEN /\ c \in FreeConns
                          /\ conns'[c].peer = p
                          /\ Connections' = Connections \cup {c}
                     ELSE /\ c = peerConnections[p]
                          /\ Connections' = Connections
                  /\ \E t \in FreeTasks :
                        /\ tasks'[t].kind = "offer" /\ tasks'[t].conn = c
                        /\ chain'[c] = Append(chain[c], t)]_vars

\* C30 witness: two offers from one peer are being handled on the one
\* connection registered for it, made by the first of them.
C30_Witness ==
    \E p \in Peers : \E t, u \in TaskIds :
        /\ t # u
        /\ tasks[t].kind = "offer" /\ tasks[u].kind = "offer"
        /\ tasks[t].peer = p /\ tasks[u].peer = p
        /\ tasks[t].conn = peerConnections[p] /\ tasks[u].conn = peerConnections[p]
        /\ Cardinality(Connections) = 1

\* C31: createOffer for a peer with no connection does not fail: it
\* registers a new connection for the peer and goes on to generate the
\* offer on that connection.
C31_CreateOfferForUnknownPeer ==
    [][\A p \in Peers :
          (CreateOffer(p) /\ peerConnections[p] = 0) =>
              /\ last'.ret # "throw"
              /\ peerConnections'[p] \in FreeConns
              /\ \E t \in FreeTasks :
                    /\ tasks'[t].pos = "createOffer"
                    /\ tasks'[t].conn = peerConnections'[p]]_vars

\* C32: when the registered connection of P reports failed or
\* disconnected, P's connection and channel are closed and removed from
\* the registry in that same step, whatever the callbacks of
\* connectionStateChange and peerDisconnected do.
Evicted(c, p) ==
    /\ peerConnections'[p] = 0 /\ conns'[c].closed
    /\ dataChannels'[p] = 0
    /\ dataChannels[p] # 0 => chans'[dataChannels[p]].readyState = "closed"

C32_EvictionUnconditional ==
    [][\A c \in ConnIds : \A s \in {"failed", "disconnected"} :
          (ConnectionStateChange(c, s) /\ peerConnections[conns[c].peer] = c)
              => Evicted(c, conns[c].peer)]_vars

\* C33: an event of a connection that is not the one registered for its
\* peer, while another one is, leaves the current session of that peer
\* alone: a state change removes nothing and emits no peerDisconnected for
\* the peer, an incoming channel is not registered.
Stale(c) ==
    /\ Allocated(c)
    /\ peerConnections[conns[c].peer] # 0
    /\ peerConnections[conns[c].peer] # c

SessionKept(p) ==
    /\ peerConnections'[p] = peerConnections[p]
    /\ dataChannels'[p] = dataChannels[p]
    /\ conns'[peerConnections[p]] = conns[peerConnections[p]]

C33_StaleEventsIgnored ==
    [][\A c \in ConnIds :
          Stale(c) =>
              /\ \A s \in DOMAIN StateAfter :
                     ConnectionStateChange(c, s) =>
                         /\ SessionKept(conns[c].peer)
                         /\ \A i \in 1..Len(last'.emits) :
                                last'.emits[i].event # "peerDisconnected"
              /\ OnDataChannel(c) => SessionKept(conns[c].peer)]_vars

\* C34: every transport state change emits connectionStateChange with the
\* new state first; peerDisconnected is emitted, after it, only for failed
\* and disconnected, and for any other state nothing is emitted after it
\* and nothing is closed or removed.
Disconnecting == {"failed", "disconnected"}

C34_StateChangeFirst ==
    [][\A c \in ConnIds : \A s \in DOMAIN StateAfter :
          (last'.op = s /\ ConnectionStateChange(c, s)) =>
              LET e == last'.emits
              IN  /\ Len(e) >= 1
                  /\ e[1].event = "connectionStateChange"
                  /\ e[1].peer = conns[c].peer /\ e[1].state = s
                  /\ \A i \in 2..Len(e) :
                         /\ e[i].event = "peerDisconnected"
                         /\ s \in Disconnecting
                  /\ s \notin Disconnecting =>
                         /\ peerConnections' = peerConnections
                         /\ dataChannels' = dataChannels
                         /\ chans' = chans
                         /\ conns' = [conns EXCEPT ![c].state = s]]_vars

\* C34 witness: a connection has just failed: connectionStateChange and
\* then peerDisconnected were emitted to a callback each, and the peer is
\* gone from the registry.
C34_Witness ==
    /\ last.op = "failed"
    /\ Len(last.emits) = 2
    /\ last.emits[1].invoked # <<>> /\ last.emits[2].invoked # <<>>
    /\ peerConnections[last.peer] = 0

\* C35: participant A dispatches a message of the bus exactly when its
\* sender is not A and it is a broadcast or addressed to A, and the
\* handler then works for the peer id of the sender.
HandledFor(p) ==
    \/ \E t \in FreeTasks : tasks'[t].pos # "idle" /\ tasks'[t].peer = p
    \/ last'.ret = "dropped" /\ last'.peer = p

C35_DispatchFilter ==
    [][\A s \in Pair :
          OnBusMessage(A, s) =>
              LET m == Head(bus[s])
              IN  /\ last'.op # "filtered" <=>
                         (m.from # A /\ (m.to = 0 \/ m.to = A))
                  /\ last'.op # "filtered" => HandledFor(m.from)]_vars

\* C35 witness: a message has just been dropped by the filter after
\* another one was dispatched and made a connection for its sender.
C35_Witness ==
    /\ last.op = "filtered"
    /\ peerConnections[B] # 0

\* C36: every control message that arrives, whatever its tag among those
\* the sending side broadcasts, is handed to a collaborator's handler.
C36_EveryTagRouted ==
    last.op = "control" => last.routed # {}

\* C37: every end event of the recognizer restarts it while isRecording is
\* true and does not when it is false, as after stop(); and isRecording is
\* true only when a start() has returned true and stop() was not called
\* since.
C37_RestartWhileRecording ==
    [][/\ RecognitionEnd =>
            transcription'.engine =
                IF transcription.isRecording THEN "listening" ELSE "idle"
       /\ TranscriptionStop => ~transcription'.isRecording
       /\ transcription'.isRecording => transcription'.armed]_vars

\* C38: at most one MediaRecorder records and at most one timer runs at
\* any time, and no timer runs after stop().
C38_OneRecorderOneTimer ==
    /\ Cardinality(recorder.recording) <= 1
    /\ Cardinality(recorder.timers) <= 1
    /\ last.op = "recording-stop" => recorder.timers = {}

====
